---- MODULE Spec2Model ----
(***************************************************************************)
(* Model of the mters editor core: src/src/graphemes.rs (boundary stepper  *)
(* and row/column conversions) and src/src/editor.rs (Editor state and     *)
(* Editor::handle_command).  The buffer is a sequence of Unicode scalars   *)
(* drawn from a small alphabet with one scalar per grapheme-break class    *)
(* the code distinguishes; byte offsets keep the UTF-8 width of each       *)
(* scalar, so that char<->byte conversions are real conversions.           *)
(***************************************************************************)
EXTENDS Integers, Sequences, FiniteSets, TLC

\* Longest buffer (in scalars) an InsertChar may produce.
MaxLen == 3

\* The scalars commands may insert: a plain letter, line feed, carriage
\* return, a combining mark (U+0301), the zero width joiner (U+200D) and an
\* Extended_Pictographic emoji scalar.
Scalars == {"a", "LF", "CR", "M", "Z", "E"}

VARIABLES
    text,              \* Editor.text: the rope's scalars, in order
    caret_abs,         \* Editor.caret_abs: absolute char index
    cursor_row,        \* Editor.cursor_row
    cursor_gcol,       \* Editor.cursor_gcol
    desired_gcol,      \* Editor.desired_gcol: <<>> is None, <<g>> is Some(g)
    last_newline_bol,  \* Editor.last_newline_bol: <<>> or <<row, bol_byte>>
    status,            \* "ok", or the panic that aborted handle_command
    last,              \* the command handled last and the state it was called on
    retained,          \* an earlier Editor value the caller still holds, or <<>>
    walk,              \* a call of step_grapheme_bound on a chunked rope, or <<>>
    keys,              \* the input layer: mode, pending and map_key's answer, or <<>>
    located            \* an offset handed to abs_char_to_line_gcol and its answer, or <<>>

vars == <<text, caret_abs, cursor_row, cursor_gcol, desired_gcol,
          last_newline_bol, status, last, retained, walk, keys,
          located>>

None == <<>>
Some(v) == <<v>>

Min(x, y) == IF x <= y THEN x ELSE y
Max(x, y) == IF x >= y THEN x ELSE y

(***************************************************************************)
(* UTF-8 and ropey index conversions (the rope of a buffer this small is a *)
(* single chunk starting at byte 0 / char 0).                              *)
(***************************************************************************)

\* char::len_utf8 of each scalar of the alphabet.
utf8_len(c) ==
    CASE c = "a" -> 1
      [] c = "LF" -> 1
      [] c = "CR" -> 1
      [] c = "M" -> 2
      [] c = "Z" -> 3
      [] c = "E" -> 4

RECURSIVE char_to_byte_idx(_, _)
char_to_byte_idx(chunk, ci) ==
    IF ci = 0 THEN 0
    ELSE char_to_byte_idx(chunk, ci - 1) + utf8_len(chunk[ci])

\* The index of the char that contains byte bi (the char that starts at bi
\* when bi is a char boundary).
RECURSIVE byte_scan(_, _, _, _)
byte_scan(chunk, bi, k, acc) ==
    IF k = Len(chunk) THEN k
    ELSE IF acc + utf8_len(chunk[k + 1]) > bi THEN k
    ELSE byte_scan(chunk, bi, k + 1, acc + utf8_len(chunk[k + 1]))

byte_to_char_idx(chunk, bi) == byte_scan(chunk, bi, 0, 0)

len_chars(t) == Len(t)
len_bytes(t) == char_to_byte_idx(t, Len(t))

abs_char_to_abs_byte(t, ci) == 0 + char_to_byte_idx(t, ci - 0)
abs_byte_to_abs_char(t, bi) == 0 + byte_to_char_idx(t, bi - 0)

(***************************************************************************)
(* Ropey line structure.  A line break is LF, CR LF (one break) or a lone  *)
(* CR; a line includes its trailing break.                                 *)
(***************************************************************************)

\* The scalar at 1-based position i is the last scalar of a line break.
EndsLineBreak(t, i) ==
    \/ t[i] = "LF"
    \/ t[i] = "CR" /\ ~(i < Len(t) /\ t[i + 1] = "LF")

len_lines(t) == 1 + Cardinality({i \in 1..Len(t) : EndsLineBreak(t, i)})

\* Rope::char_to_line: an index between CR and LF is on the line the pair ends.
char_to_line(t, ci) == Cardinality({i \in 1..ci : EndsLineBreak(t, i)})

\* Rope::line_to_char: the first char index of line n; len_chars for n = len_lines.
RECURSIVE line_scan(_, _, _)
line_scan(t, n, ci) ==
    IF n = 0 \/ ci = Len(t) THEN ci
    ELSE line_scan(t, IF EndsLineBreak(t, ci + 1) THEN n - 1 ELSE n, ci + 1)

line_to_char(t, n) == line_scan(t, n, 0)

line_to_byte(t, n) == char_to_byte_idx(t, line_to_char(t, n))

\* Rope::line(row), as a string of its own.
line(t, row) == SubSeq(t, line_to_char(t, row) + 1, line_to_char(t, row + 1))

line_bounds_bytes(t, row) ==
    <<abs_char_to_abs_byte(t, line_to_char(t, row)),
      abs_char_to_abs_byte(t, line_to_char(t, row + 1))>>

(***************************************************************************)
(* Extended grapheme cluster boundaries as GraphemeCursor decides them     *)
(* (UAX #29 rules GB1-GB5, GB9, GB11, GB999 for the categories of the      *)
(* alphabet).                                                              *)
(***************************************************************************)

grapheme_category(c) ==
    CASE c = "a" -> "GC_Any"
      [] c = "LF" -> "GC_LF"
      [] c = "CR" -> "GC_CR"
      [] c = "M" -> "GC_Extend"
      [] c = "Z" -> "GC_ZWJ"
      [] c = "E" -> "GC_Extended_Pictographic"

\* GB11 look-back from the scalar at position k (the one before the ZWJ):
\* skip Extend, no break if an Extended_Pictographic is found, break otherwise.
RECURSIVE handle_emoji(_, _)
handle_emoji(t, k) ==
    IF k = 0 THEN TRUE
    ELSE CASE grapheme_category(t[k]) = "GC_Extend" -> handle_emoji(t, k - 1)
           [] grapheme_category(t[k]) = "GC_Extended_Pictographic" -> FALSE
           [] OTHER -> TRUE

\* GraphemeCursor::is_boundary at char index ci of t (TRUE = boundary).
is_boundary(t, ci) ==
    IF ci = 0 \/ ci = Len(t) THEN TRUE
    ELSE LET before == grapheme_category(t[ci])
             after == grapheme_category(t[ci + 1])
         IN  CASE before = "GC_CR" /\ after = "GC_LF" -> FALSE
               [] before \in {"GC_CR", "GC_LF"} -> TRUE
               [] after \in {"GC_CR", "GC_LF"} -> TRUE
               [] after \in {"GC_Extend", "GC_ZWJ"} -> FALSE
               [] before = "GC_ZWJ" /\ after = "GC_Extended_Pictographic" ->
                      handle_emoji(t, ci - 1)
               [] OTHER -> TRUE

\* A stepper that moves by scalars, not by clusters.
next_boundary_scalar(t, ci) == IF ci >= Len(t) THEN Len(t) ELSE ci + 1

\* GraphemeCursor::next_boundary: step one scalar, then on until a boundary.
RECURSIVE next_boundary(_, _)
next_boundary(t, ci) ==
    IF ci >= Len(t) THEN Len(t)
    ELSE IF is_boundary(t, ci + 1) THEN ci + 1
    ELSE next_boundary(t, ci + 1)

prev_boundary_scalar(t, ci) == IF ci <= 0 THEN 0 ELSE ci - 1

\* GraphemeCursor::prev_boundary: step back one scalar, then on until a boundary.
RECURSIVE prev_boundary(_, _)
prev_boundary(t, ci) ==
    IF ci <= 0 THEN 0
    ELSE IF is_boundary(t, ci - 1) THEN ci - 1
    ELSE prev_boundary(t, ci - 1)

\* Next/previous grapheme byte boundary from a byte offset.  The chunk that
\* contains from_byte is the whole buffer, so the cursor answers on the first
\* request: Ok(Some(bi)), or Ok(None) at a buffer extreme.
step_grapheme_bound(t, from_byte, forward) ==
    LET total_bytes == len_bytes(t)
        from_ci == byte_to_char_idx(t, from_byte)
    IN  IF forward
        THEN IF from_byte = total_bytes THEN total_bytes
             ELSE char_to_byte_idx(t, next_boundary(t, from_ci))
        ELSE IF from_byte = 0 THEN 0
             ELSE char_to_byte_idx(t, prev_boundary(t, from_ci))

next_grapheme_abs_char(t, abs_ci) ==
    LET from_byte == abs_char_to_abs_byte(t, abs_ci)
        next_byte == step_grapheme_bound(t, from_byte, TRUE)
    IN  abs_byte_to_abs_char(t, next_byte)

prev_grapheme_abs_char(t, abs_ci) ==
    LET from_byte == abs_char_to_abs_byte(t, abs_ci)
        prev_byte == step_grapheme_bound(t, from_byte, FALSE)
    IN  abs_byte_to_abs_char(t, prev_byte)

(***************************************************************************)
(* Line-relative helpers of graphemes.rs.                                  *)
(***************************************************************************)

\* The counting loop of line_gcount, from byte b with count clusters seen.
RECURSIVE line_gcount_loop(_, _, _, _)
line_gcount_loop(t, b, eb, count) ==
    LET nb == step_grapheme_bound(t, b, TRUE)
    IN  IF nb > eb THEN count
        ELSE IF nb = eb THEN count + 1
        ELSE line_gcount_loop(t, nb, eb, count + 1)

line_gcount(t, row) ==
    LET sb == line_bounds_bytes(t, row)[1]
        eb == line_bounds_bytes(t, row)[2]
    IN  IF sb = eb THEN 0 ELSE line_gcount_loop(t, sb, eb, 0)

\* The for loop of line_gcol_to_abs_char with n iterations left.
RECURSIVE gcol_walk(_, _, _, _)
gcol_walk(t, b, eb, n) ==
    IF n = 0 THEN b
    ELSE LET nb == step_grapheme_bound(t, b, TRUE)
         IN  IF nb >= eb THEN eb ELSE gcol_walk(t, nb, eb, n - 1)

line_gcol_to_abs_char(t, row, gcol) ==
    LET sb == line_bounds_bytes(t, row)[1]
        eb == line_bounds_bytes(t, row)[2]
        gc == line_gcount(t, row)
        g == IF gcol > gc THEN gc ELSE gcol
    IN  abs_byte_to_abs_char(t, gcol_walk(t, sb, eb, g))

\* A counting loop that counts the cluster the target lies inside.
RECURSIVE gcol_count_SnapsUp(_, _, _, _)
gcol_count_SnapsUp(t, b, target_b, gcol) ==
    LET nb == step_grapheme_bound(t, b, TRUE)
    IN  IF nb <= b THEN gcol
        ELSE IF nb >= target_b THEN gcol + 1
        ELSE gcol_count_SnapsUp(t, nb, target_b, gcol + 1)

\* The counting loop of abs_char_to_line_gcol.
RECURSIVE gcol_count(_, _, _, _)
gcol_count(t, b, target_b, gcol) ==
    LET nb == step_grapheme_bound(t, b, TRUE)
    IN  IF nb <= b THEN gcol
        ELSE IF nb > target_b THEN gcol
        ELSE IF nb = target_b THEN gcol + 1
        ELSE gcol_count(t, nb, target_b, gcol + 1)

abs_char_to_line_gcol(t, abs_ci) ==
    LET row == char_to_line(t, abs_ci)
        sb == line_bounds_bytes(t, row)[1]
        eb == line_bounds_bytes(t, row)[2]
        target_b == Min(Max(abs_char_to_abs_byte(t, abs_ci), sb), eb)
    IN  IF sb = eb THEN <<row, 0>>
        ELSE <<row, gcol_count(t, sb, target_b, 0)>>

(***************************************************************************)
(* Editor (editor.rs).                                                     *)
(***************************************************************************)

\* Editor::line_gcount: the clusters of the row's text taken as a string.
Editor_line_gcount(t, row) ==
    LET s == line(t, row)
    IN  Cardinality({q \in 1..Len(s) : is_boundary(s, q)})

\* A clamp that lets every column through.
clamp_gcol_on_row_Unclamped(t, row, gcol) == gcol

clamp_gcol_on_row(t, row, gcol) == Min(gcol, Editor_line_gcount(t, row))

\* An insert that appends the scalar to the buffer.
insert_AtEnd(t, at, c) == Append(t, c)

\* Rope::insert of one scalar at char index at; Rope::remove of start..end.
insert(t, at, c) == SubSeq(t, 1, at) \o <<c>> \o SubSeq(t, at + 1, Len(t))
remove(t, start, end) == SubSeq(t, 1, start) \o SubSeq(t, end + 1, Len(t))

\* Rope::char(i), 0-based.
char(t, i) == t[i + 1]

Started(cmd, c) ==
    [cmd |-> cmd, c |-> c, text |-> text, caret |-> caret_abs,
     row |-> cursor_row, gcol |-> cursor_gcol, desired |-> desired_gcol,
     cookie |-> last_newline_bol]

\* The fields of the Editor value a caller can observe or keep.
EditorValue ==
    [text |-> text, caret |-> caret_abs, row |-> cursor_row,
     gcol |-> cursor_gcol, desired |-> desired_gcol]

\* Editor::new
Init ==
    /\ text = <<>>
    /\ caret_abs = 0
    /\ cursor_row = 0
    /\ cursor_gcol = 0
    /\ desired_gcol = None
    /\ last_newline_bol = None
    /\ status = "ok"
    /\ last = [cmd |-> "new", c |-> "", text |-> <<>>, caret |-> 0, row |-> 0,
               gcol |-> 0, desired |-> None, cookie |-> None]
    /\ retained = None
    /\ walk = None
    /\ keys = None
    /\ located = None

\* The debug checks at the entry of handle_command: "ok", or the panic.
\* (line_to_char panics on a row past the last one.)
\* Entry checks whose newline guard also fires with the caret at the
\* recorded start of the row.
EntryCheck_GuardAtBol ==
    IF cursor_row >= len_lines(text) THEN "index"
    ELSE IF line_gcol_to_abs_char(text, cursor_row, cursor_gcol) # caret_abs
    THEN "drift"
    ELSE IF /\ last_newline_bol # None
            /\ cursor_row = last_newline_bol[1]
            /\ char_to_byte_idx(text, caret_abs) >= last_newline_bol[2]
    THEN "newline_guard"
    ELSE "ok"

EntryCheck ==
    IF cursor_row >= len_lines(text) THEN "index"
    ELSE IF line_gcol_to_abs_char(text, cursor_row, cursor_gcol) # caret_abs
    THEN "drift"
    ELSE IF /\ last_newline_bol # None
            /\ cursor_row = last_newline_bol[1]
            /\ char_to_byte_idx(text, caret_abs) > last_newline_bol[2]
    THEN "newline_guard"
    ELSE "ok"

\* handle_command panicked in its entry checks: no state is returned.
Abort(cmd, c) ==
    /\ status' = EntryCheck
    /\ last' = Started(cmd, c)
    /\ UNCHANGED <<text, caret_abs, cursor_row, cursor_gcol, desired_gcol,
                   last_newline_bol, retained, walk, keys, located>>

\* A handle_command that works on self in place of a clone: a value the
\* caller retained from self changes with it.
Returns_InPlace(cmd, c, t, caret, vis, desired, cookie) ==
    /\ text' = t
    /\ caret_abs' = caret
    /\ cursor_row' = vis[1]
    /\ cursor_gcol' = vis[2]
    /\ desired_gcol' = desired
    /\ last_newline_bol' = cookie
    /\ status' = "ok"
    /\ last' = Started(cmd, c)
    /\ retained' = IF retained = Some(EditorValue)
                   THEN Some([text |-> t, caret |-> caret, row |-> vis[1],
                              gcol |-> vis[2], desired |-> desired])
                   ELSE retained
    /\ walk' = walk
    /\ keys' = keys
    /\ located' = located

\* The new state of a command that passed the entry checks (which take the
\* newline cookie; vis is <<row, gcol>>): the fields of new, a clone of self.
\* self, and so a value retained from it, stays as it is.
Returns(cmd, c, t, caret, vis, desired, cookie) ==
    /\ text' = t
    /\ caret_abs' = caret
    /\ cursor_row' = vis[1]
    /\ cursor_gcol' = vis[2]
    /\ desired_gcol' = desired
    /\ last_newline_bol' = cookie
    /\ status' = "ok"
    /\ last' = Started(cmd, c)
    /\ retained' = retained
    /\ walk' = walk
    /\ keys' = keys
    /\ located' = located

\* A MoveLeft that forgets to clear the desired column.
MoveLeft_KeepsDesired ==
    /\ status = "ok"
    /\ IF EntryCheck # "ok" THEN Abort("MoveLeft", "")
       ELSE LET prev == prev_grapheme_abs_char(text, caret_abs)
            IN  Returns("MoveLeft", "", text, prev,
                        abs_char_to_line_gcol(text, prev), desired_gcol, None)

MoveLeft ==
    /\ status = "ok"
    /\ IF EntryCheck # "ok" THEN Abort("MoveLeft", "")
       ELSE LET prev == prev_grapheme_abs_char(text, caret_abs)
            IN  Returns("MoveLeft", "", text, prev,
                        abs_char_to_line_gcol(text, prev), None, None)

MoveRight ==
    /\ status = "ok"
    /\ IF EntryCheck # "ok" THEN Abort("MoveRight", "")
       ELSE LET next == next_grapheme_abs_char(text, caret_abs)
            IN  Returns("MoveRight", "", text, next,
                        abs_char_to_line_gcol(text, next), None, None)

\* set_desired_gcol, the row step, clamp_gcol_on_row and
\* sync_caret_from_visual of a vertical move to row.
VerticalMove(cmd, row) ==
    LET tgt == cursor_gcol
        gcol == clamp_gcol_on_row(text, row, tgt)
    IN  Returns(cmd, "", text, line_gcol_to_abs_char(text, row, gcol),
                <<row, gcol>>, Some(tgt), None)

\* An arm that clears the desired column on its way out.
Unmoved_ClearsDesired(cmd) ==
    Returns(cmd, "", text, caret_abs, <<cursor_row, cursor_gcol>>, None, None)

Unmoved(cmd) ==
    Returns(cmd, "", text, caret_abs, <<cursor_row, cursor_gcol>>,
            desired_gcol, None)

MoveUp ==
    /\ status = "ok"
    /\ IF EntryCheck # "ok" THEN Abort("MoveUp", "")
       ELSE IF cursor_row > 0 THEN VerticalMove("MoveUp", cursor_row - 1)
       ELSE Unmoved("MoveUp")

MoveDown ==
    /\ status = "ok"
    /\ IF EntryCheck # "ok" THEN Abort("MoveDown", "")
       ELSE IF cursor_row + 1 < len_lines(text)
       THEN VerticalMove("MoveDown", cursor_row + 1)
       ELSE Unmoved("MoveDown")

\* InsertChar(c) on a buffer of fewer than cap scalars.
InsertCharInto(c, cap) ==
    /\ status = "ok"
    /\ Len(text) < cap
    /\ IF EntryCheck # "ok" THEN Abort("InsertChar", c)
       ELSE LET at == caret_abs
                t == insert(text, at, c)
                next == next_grapheme_abs_char(t, at)
                vis == abs_char_to_line_gcol(t, next)
            IN  IF c = "LF"
                THEN Returns("InsertChar", c, t, next, vis, None,
                             <<vis[1], line_to_byte(t, vis[1])>>)
                ELSE Returns("InsertChar", c, t, next, vis, None, None)

\* An InsertChar that leaves the caret before an inserted line feed.
InsertChar_NewlineKeepsCaret(c) ==
    /\ status = "ok"
    /\ Len(text) < MaxLen
    /\ IF EntryCheck # "ok" THEN Abort("InsertChar", c)
       ELSE LET at == caret_abs
                t == insert(text, at, c)
                next == IF c = "LF" THEN at ELSE next_grapheme_abs_char(t, at)
                vis == abs_char_to_line_gcol(t, next)
            IN  IF c = "LF"
                THEN Returns("InsertChar", c, t, next, vis, None,
                             <<vis[1], line_to_byte(t, vis[1])>>)
                ELSE Returns("InsertChar", c, t, next, vis, None, None)

InsertChar(c) == InsertCharInto(c, MaxLen)

\* A Backspace that always removes one scalar.
BackspaceRange_OneScalar(t, here) == <<here - 1, here>>

\* The char range Backspace removes with the caret at here > 0.
BackspaceRange(t, here) ==
    IF char(t, here - 1) = "LF"
    THEN IF here >= 2 /\ char(t, here - 2) = "CR"
         THEN <<here - 2, here>>
         ELSE <<here - 1, here>>
    ELSE IF char(t, here - 1) = "CR"
    THEN <<here - 1, here>>
    ELSE <<prev_grapheme_abs_char(t, here), here>>

Backspace ==
    /\ status = "ok"
    /\ IF EntryCheck # "ok" THEN Abort("Backspace", "")
       ELSE LET here == caret_abs
            IN  IF here > 0
                THEN LET del == BackspaceRange(text, here)
                         t == remove(text, del[1], del[2])
                     IN  Returns("Backspace", "", t, del[1],
                                 abs_char_to_line_gcol(t, del[1]), None, None)
                ELSE Returns("Backspace", "", text, caret_abs,
                             <<cursor_row, cursor_gcol>>, None, None)

\* The char range Delete removes with the caret at here < len.
DeleteRange(t, here) ==
    LET len == len_chars(t)
    IN  IF char(t, here) = "LF" THEN <<here, here + 1>>
        ELSE IF char(t, here) = "CR"
        THEN IF here + 1 < len /\ char(t, here + 1) = "LF"
             THEN <<here, here + 2>>
             ELSE <<here, here + 1>>
        ELSE LET next == next_grapheme_abs_char(t, here)
             IN  IF next > here THEN <<here, next>>
                 ELSE IF here + 1 <= len THEN <<here, here + 1>>
                 ELSE <<here, here>>

\* A Delete with sync_visual_from_caret moved out of the if.
Delete_SyncsAlways ==
    /\ status = "ok"
    /\ IF EntryCheck # "ok" THEN Abort("Delete", "")
       ELSE LET here == caret_abs
                del == IF here < len_chars(text) THEN DeleteRange(text, here)
                       ELSE <<here, here>>
                t == remove(text, del[1], del[2])
            IN  Returns("Delete", "", t, here,
                        abs_char_to_line_gcol(t, here), None, None)

Delete ==
    /\ status = "ok"
    /\ IF EntryCheck # "ok" THEN Abort("Delete", "")
       ELSE LET here == caret_abs
            IN  IF here < len_chars(text)
                THEN LET del == DeleteRange(text, here)
                         t == remove(text, del[1], del[2])
                     IN  Returns("Delete", "", t, here,
                                 abs_char_to_line_gcol(t, here), None, None)
                ELSE Returns("Delete", "", text, caret_abs,
                             <<cursor_row, cursor_gcol>>, None, None)

Quit ==
    /\ status = "ok"
    /\ IF EntryCheck # "ok" THEN Abort("Quit", "") ELSE Unmoved("Quit")

Unknown ==
    /\ status = "ok"
    /\ IF EntryCheck # "ok" THEN Abort("Unknown", "") ELSE Unmoved("Unknown")

Next ==
    \/ MoveLeft
    \/ MoveRight
    \/ MoveUp
    \/ MoveDown
    \/ \E c \in Scalars : InsertChar(c)
    \/ Backspace
    \/ Delete
    \/ Quit
    \/ Unknown

Spec == Init /\ [][Next]_vars

\* The editor fed only line-break keys, on buffers of up to MaxBreaks scalars.
MaxBreaks == 4

Breaks == {"CR", "LF"}

NextBreaks ==
    \/ MoveLeft
    \/ MoveRight
    \/ MoveUp
    \/ MoveDown
    \/ \E c \in Breaks : InsertCharInto(c, MaxBreaks)
    \/ Backspace
    \/ Delete
    \/ Quit
    \/ Unknown

SpecBreaks == Init /\ [][NextBreaks]_vars

\* A caller that keeps the Editor value it calls handle_command on (let
\* updated = editor.handle_command(..), with editor still in scope), typing
\* letters and line feeds into buffers of up to MaxRetained scalars.
MaxRetained == 2

Retain ==
    /\ status = "ok"
    /\ retained' = Some(EditorValue)
    /\ UNCHANGED <<text, caret_abs, cursor_row, cursor_gcol, desired_gcol,
                   last_newline_bol, status, last, walk, keys, located>>

NextRetain ==
    \/ Retain
    \/ MoveLeft
    \/ MoveRight
    \/ MoveUp
    \/ MoveDown
    \/ \E c \in {"a", "LF"} : InsertCharInto(c, MaxRetained)
    \/ Backspace
    \/ Delete
    \/ Quit
    \/ Unknown

SpecRetain == Init /\ [][NextRetain]_vars

(***************************************************************************)
(* step_grapheme_bound on a rope of several chunks.  Offsets are byte      *)
(* offsets; seams is the set of byte offsets where one chunk ends and the  *)
(* next begins.  A chunk is named by its start, a string slice by its      *)
(* <<start, end>>.  The cursor is GraphemeCursor's state: offset, state,   *)
(* cat_before, cat_after, pre_context_offset, resuming.                    *)
(***************************************************************************)

\* The scalar that starts at byte b, and the one that ends there.
char_at(t, b) == t[byte_to_char_idx(t, b) + 1]
char_before(t, b) == t[byte_to_char_idx(t, b)]

\* Rope::chunk_at_byte: <<chunk_start, chunk_end>> of the chunk that holds
\* byte b; a seam belongs to the chunk it starts, and the one-past-the-end
\* offset to the last chunk.
greatest(S) == IF S = {} THEN 0 ELSE CHOOSE s \in S : \A o \in S : o <= s

chunk_start_at(t, seams, b) ==
    IF b >= len_bytes(t) THEN greatest({s \in seams : s < len_bytes(t)})
    ELSE greatest({s \in seams : s <= b})

least_or(S, dflt) == IF S = {} THEN dflt ELSE CHOOSE s \in S : \A o \in S : s <= o

chunk_end_of(t, seams, cs) == least_or({s \in seams : s > cs}, len_bytes(t))

chunk_end_at(t, seams, cs) == <<cs, chunk_end_of(t, seams, cs)>>

chunk_at_byte(t, seams, b) == chunk_end_at(t, seams, chunk_start_at(t, seams, b))

\* GraphemeCursor::new
cursor_new(offset, len) ==
    [offset |-> offset,
     state |-> IF offset = 0 \/ offset = len THEN "Break" ELSE "Unknown",
     cat_before |-> None, cat_after |-> None,
     pre_context_offset |-> None, resuming |-> FALSE]

decide(cur, is_break) ==
    [cur EXCEPT !.state = IF is_break THEN "Break" ELSE "NotBreak"]

\* check_pair of the segmentation tables, for the categories of the alphabet.
check_pair(before, after) ==
    CASE before = "GC_CR" /\ after = "GC_LF" -> "NotBreak"
      [] before \in {"GC_CR", "GC_LF"} -> "Break"
      [] after \in {"GC_CR", "GC_LF"} -> "Break"
      [] after \in {"GC_Extend", "GC_ZWJ"} -> "NotBreak"
      [] before = "GC_ZWJ" /\ after = "GC_Extended_Pictographic" -> "Emoji"
      [] OTHER -> "Break"

\* The for loop of GraphemeCursor::handle_emoji over the scalars of
\* t[lo..b), from the end: on while Extend, else the decision.
RECURSIVE emoji_lookback(_, _, _)
emoji_lookback(t, lo, b) ==
    IF b <= lo THEN "exhausted"
    ELSE CASE grapheme_category(char_before(t, b)) = "GC_Extend" ->
                 emoji_lookback(t, lo, b - utf8_len(char_before(t, b)))
           [] grapheme_category(char_before(t, b)) =
                 "GC_Extended_Pictographic" -> "NotBreak"
           [] OTHER -> "Break"

\* The end of handle_emoji: the decision found, or a request for the text
\* before chunk_start.
emoji_decision(cur, chunk_start, found) ==
    CASE found = "NotBreak" -> decide(cur, FALSE)
      [] found = "Break" -> decide(cur, TRUE)
      [] OTHER ->
           IF chunk_start = 0 THEN decide(cur, TRUE)
           ELSE [cur EXCEPT !.pre_context_offset = Some(chunk_start),
                            !.state = "Emoji"]

\* GraphemeCursor::handle_emoji(chunk, chunk_start), chunk being t[lo..hi).
cursor_handle_emoji(t, lo, hi, cur) ==
    IF hi <= lo THEN emoji_decision(cur, lo, "exhausted")
    ELSE IF grapheme_category(char_before(t, hi)) # "GC_ZWJ"
    THEN decide(cur, TRUE)
    ELSE emoji_decision(cur, lo,
             emoji_lookback(t, lo, hi - utf8_len(char_before(t, hi))))

\* GraphemeCursor::provide_context(chunk, chunk_start), chunk being
\* t[lo..hi): <<cursor, "ok">>, or "panic" for the failed assert and for the
\* unwrap of the last scalar of an empty chunk.
cursor_provide_context(t, lo, hi, cur) ==
    IF cur.pre_context_offset # Some(hi) THEN <<cur, "panic">>
    ELSE IF hi = cur.offset /\ hi = lo
    THEN <<[cur EXCEPT !.pre_context_offset = None], "panic">>
    ELSE IF cur.state = "Emoji"
    THEN <<cursor_handle_emoji(t, lo, hi,
               [cur EXCEPT !.pre_context_offset = None]), "ok">>
    ELSE IF cur.cat_before = None /\ cur.offset = hi
    THEN <<[cur EXCEPT !.pre_context_offset = None,
                       !.cat_before =
                           Some(grapheme_category(char_before(t, hi)))],
           "ok">>
    ELSE <<[cur EXCEPT !.pre_context_offset = None], "ok">>

\* is_boundary_result of GraphemeCursor, after handle_emoji.
is_boundary_result(cur) ==
    IF cur.state = "Break" THEN <<cur, <<"Ok", TRUE>>>>
    ELSE IF cur.state = "NotBreak" THEN <<cur, <<"Ok", FALSE>>>>
    ELSE <<cur, <<"PreContext", cur.pre_context_offset[1]>>>>

\* The match on check_pair at the end of is_boundary.
is_boundary_pair(t, cs, cur, pair) ==
    CASE pair = "NotBreak" -> <<decide(cur, FALSE), <<"Ok", FALSE>>>>
      [] pair = "Break" -> <<decide(cur, TRUE), <<"Ok", TRUE>>>>
      [] OTHER -> is_boundary_result(cursor_handle_emoji(t, cs, cur.offset, cur))

\* is_boundary with cat_before known.
is_boundary_known(t, cs, cur) ==
    is_boundary_pair(t, cs, cur, check_pair(cur.cat_before[1], cur.cat_after[1]))

\* is_boundary from the point where cat_after is known: the pre-context
\* request at the start of the chunk, else the pair.
is_boundary_after(t, cs, cur) ==
    IF cur.offset = cs /\ cur.cat_after = Some("GC_Extended_Pictographic")
    THEN <<[cur EXCEPT !.state = "Emoji", !.pre_context_offset = Some(cs)],
           <<"PreContext", cs>>>>
    ELSE IF cur.offset = cs /\ cur.cat_before = None
    THEN <<[cur EXCEPT !.pre_context_offset = Some(cs)],
           <<"PreContext", cs>>>>
    ELSE IF cur.cat_before = None
    THEN is_boundary_known(t, cs,
             [cur EXCEPT !.cat_before =
                 Some(grapheme_category(char_before(t, cur.offset)))])
    ELSE is_boundary_known(t, cs, cur)

\* GraphemeCursor::is_boundary(chunk, chunk_start), chunk being t[cs..ce):
\* <<cursor, result>>, the result <<"Ok", bool>>, <<"PreContext", offset>>
\* or <<"InvalidOffset">>.
cursor_is_boundary(t, cs, ce, cur) ==
    IF cur.state = "Break" THEN <<cur, <<"Ok", TRUE>>>>
    ELSE IF cur.state = "NotBreak" THEN <<cur, <<"Ok", FALSE>>>>
    ELSE IF /\ (cur.offset < cs \/ cur.offset >= ce)
            /\ (cur.offset > ce \/ cur.cat_after = None)
    THEN <<cur, <<"InvalidOffset">>>>
    ELSE IF cur.pre_context_offset # None
    THEN <<cur, <<"PreContext", cur.pre_context_offset[1]>>>>
    ELSE IF cur.cat_after = None
    THEN is_boundary_after(t, cs,
             [cur EXCEPT !.cat_after =
                 Some(grapheme_category(char_at(t, cur.offset)))])
    ELSE is_boundary_after(t, cs, cur)

\* The cursor moved over the scalar ch, to offset off (state, cat_before
\* and cat_after as next_boundary and prev_boundary set them).
moved_forward(cur, ch, off) ==
    [cur EXCEPT !.offset = off,
                !.state = "Unknown",
                !.cat_before = IF cur.cat_after # None THEN cur.cat_after
                               ELSE Some(grapheme_category(ch)),
                !.cat_after = None]

moved_backward(cur, off) ==
    [cur EXCEPT !.offset = off,
                !.cat_after = cur.cat_before,
                !.cat_before = None,
                !.state = "Unknown"]

RECURSIVE next_boundary_loop(_, _, _, _)

\* The end of an iteration of next_boundary's loop: r is what is_boundary
\* answered.
next_boundary_end(t, cs, ce, r) ==
    IF r[2][1] # "Ok" THEN r
    ELSE IF r[2][2]
    THEN <<[r[1] EXCEPT !.resuming = FALSE], <<"Some", r[1].offset>>>>
    ELSE next_boundary_loop(t, cs, ce, [r[1] EXCEPT !.resuming = FALSE])

next_boundary_check(t, cs, ce, cur) ==
    next_boundary_end(t, cs, ce,
        cursor_is_boundary(t, cs, ce, [cur EXCEPT !.resuming = TRUE]))

\* next_boundary's loop after the move to off (not resuming).
next_boundary_moved(t, cs, ce, cur) ==
    IF cur.offset < ce
    THEN next_boundary_check(t, cs, ce,
             [cur EXCEPT !.cat_after =
                 Some(grapheme_category(char_at(t, cur.offset)))])
    ELSE IF cur.offset = len_bytes(t)
    THEN next_boundary_check(t, cs, ce, decide(cur, TRUE))
    ELSE <<[cur EXCEPT !.resuming = TRUE], <<"NextChunk">>>>

\* The loop of GraphemeCursor::next_boundary; ch, the scalar the iterator
\* is at, is the one that starts at the cursor's offset.
next_boundary_loop(t, cs, ce, cur) ==
    IF cur.resuming
    THEN IF cur.cat_after = None
         THEN next_boundary_check(t, cs, ce,
                  [cur EXCEPT !.cat_after =
                      Some(grapheme_category(char_at(t, cur.offset)))])
         ELSE next_boundary_check(t, cs, ce, cur)
    ELSE next_boundary_moved(t, cs, ce,
             moved_forward(cur, char_at(t, cur.offset),
                           cur.offset + utf8_len(char_at(t, cur.offset))))

\* GraphemeCursor::next_boundary(chunk, chunk_start), chunk being t[cs..ce):
\* <<cursor, result>>, the result <<"Some", bi>>, <<"None">>, an error, or
\* <<"Panic">> for a slice out of the chunk.
cursor_next_boundary(t, cs, ce, cur) ==
    IF cur.offset = len_bytes(t) THEN <<cur, <<"None">>>>
    ELSE IF cur.offset < cs \/ cur.offset >= ce THEN <<cur, <<"Panic">>>>
    ELSE next_boundary_loop(t, cs, ce, cur)

RECURSIVE prev_boundary_loop(_, _, _, _)

prev_boundary_end(t, cs, ce, r) ==
    IF r[2][1] # "Ok" THEN r
    ELSE IF r[2][2]
    THEN <<[r[1] EXCEPT !.resuming = FALSE], <<"Some", r[1].offset>>>>
    ELSE prev_boundary_loop(t, cs, ce, [r[1] EXCEPT !.resuming = FALSE])

prev_boundary_check(t, cs, ce, cur) ==
    prev_boundary_end(t, cs, ce,
        cursor_is_boundary(t, cs, ce, [cur EXCEPT !.resuming = TRUE]))

\* prev_boundary's loop after the move back over ch (not resuming).
prev_boundary_moved(t, cs, ce, cur, ch) ==
    IF cur.offset > cs
    THEN prev_boundary_check(t, cs, ce,
             [cur EXCEPT !.cat_before =
                 Some(grapheme_category(char_before(t, cur.offset)))])
    ELSE IF cur.offset = 0
    THEN prev_boundary_check(t, cs, ce, decide(cur, TRUE))
    ELSE <<[cur EXCEPT !.resuming = TRUE,
                       !.cat_after = Some(grapheme_category(ch))],
           <<"PrevChunk">>>>

\* The loop of GraphemeCursor::prev_boundary; ch, the scalar the iterator
\* is at, is the one that ends at the cursor's offset.
prev_boundary_loop(t, cs, ce, cur) ==
    IF cur.offset = cs
    THEN <<[cur EXCEPT !.resuming = TRUE], <<"PrevChunk">>>>
    ELSE IF cur.resuming
    THEN prev_boundary_check(t, cs, ce,
             [cur EXCEPT !.cat_before =
                 Some(grapheme_category(char_before(t, cur.offset)))])
    ELSE prev_boundary_moved(t, cs, ce,
             moved_backward(cur, cur.offset
                                 - utf8_len(char_before(t, cur.offset))),
             char_before(t, cur.offset))

\* GraphemeCursor::prev_boundary(chunk, chunk_start), chunk being t[cs..ce).
cursor_prev_boundary(t, cs, ce, cur) ==
    IF cur.offset = 0 THEN <<cur, <<"None">>>>
    ELSE IF cur.offset = cs THEN <<cur, <<"PrevChunk">>>>
    ELSE IF cur.offset < cs \/ cur.offset > ce THEN <<cur, <<"Panic">>>>
    ELSE prev_boundary_loop(t, cs, ce, cur)

\* let res = if forward { cursor.next_boundary(chunk, chunk_start) } else
\* { cursor.prev_boundary(chunk, chunk_start) }, for the loop state w.
step_result(w) ==
    IF w.forward
    THEN cursor_next_boundary(w.t, w.chunk,
                              chunk_end_of(w.t, w.seams, w.chunk), w.cursor)
    ELSE cursor_prev_boundary(w.t, w.chunk,
                              chunk_end_of(w.t, w.seams, w.chunk), w.cursor)

returned(w, cur, bi) ==
    [w EXCEPT !.cursor = cur, !.outcome = "returned", !.result = bi]

panicked(w, cur) == [w EXCEPT !.cursor = cur, !.outcome = "panic"]

\* The loop goes round with cursor cur and the chunk that starts at cs.  An
\* iteration that leaves both as they were is repeated for ever.
retried(w, cur, cs) ==
    [w EXCEPT !.cursor = cur, !.chunk = cs,
              !.outcome = IF cur = w.cursor /\ cs = w.chunk THEN "diverged"
                          ELSE "running"]

\* The PreContext arm after provide_context answered p.
context_provided(w, p) ==
    IF p[2] = "panic" THEN panicked(w, p[1]) ELSE retried(w, p[1], w.chunk)

\* The arms of match res that do not return a boundary from the cursor.
retry_arm(w, cur, res) ==
    CASE res[1] = "PreContext" ->
           context_provided(w,
               cursor_provide_context(w.t,
                   chunk_at_byte(w.t, w.seams, res[2])[1], res[2], cur))
      [] res[1] = "NextChunk" ->
           IF chunk_end_of(w.t, w.seams, w.chunk) >= len_bytes(w.t)
           THEN returned(w, cur, len_bytes(w.t))
           ELSE retried(w, cur,
                    chunk_at_byte(w.t, w.seams,
                        chunk_end_of(w.t, w.seams, w.chunk))[1])
      [] res[1] = "PrevChunk" ->
           IF w.chunk = 0 THEN returned(w, cur, 0)
           ELSE retried(w, cur, chunk_at_byte(w.t, w.seams, w.chunk - 1)[1])
      [] res[1] = "InvalidOffset" ->
           retried(w, cur, chunk_at_byte(w.t, w.seams, cur.offset)[1])
      [] OTHER -> panicked(w, cur)

\* The ropes of up to MaxChunked scalars and their chunk layouts: any set
\* of seams between scalars, but none between a CR and its LF.
MaxChunked == 3

Buffers == UNION {[1..n -> Scalars] : n \in 0..MaxChunked}

Layouts(t) ==
    SUBSET {char_to_byte_idx(t, k) : k \in
               {k \in 1..(Len(t) - 1) : ~(t[k] = "CR" /\ t[k + 1] = "LF")}}

\* The entry of step_grapheme_bound, called by next_grapheme_abs_char
\* (forward) or prev_grapheme_abs_char on char index abs_ci.
StepperCall(t, seams, abs_ci, forward) ==
    LET from_byte == abs_char_to_abs_byte(t, abs_ci)
    IN  [t |-> t, seams |-> seams, forward |-> forward, from |-> abs_ci,
         cursor |-> cursor_new(from_byte, len_bytes(t)),
         chunk |-> chunk_at_byte(t, seams, from_byte)[1],
         outcome |-> "running", result |-> 0]

InitStepper ==
    /\ text = <<>>
    /\ caret_abs = 0
    /\ cursor_row = 0
    /\ cursor_gcol = 0
    /\ desired_gcol = None
    /\ last_newline_bol = None
    /\ status = "ok"
    /\ last = [cmd |-> "new", c |-> "", text |-> <<>>, caret |-> 0, row |-> 0,
               gcol |-> 0, desired |-> None, cookie |-> None]
    /\ retained = None
    /\ keys = None
    /\ located = None
    /\ \E t \in Buffers : \E seams \in Layouts(t) : \E abs_ci \in 0..Len(t) :
          \E forward \in BOOLEAN :
             walk = Some(StepperCall(t, seams, abs_ci, forward))

\* The boundary an Ok result stands for.
ok_boundary(w, res) ==
    IF res[1] = "Some" THEN res[2]
    ELSE IF w.forward THEN len_bytes(w.t) ELSE 0

\* The loop state after the iteration that got <<cursor, result>> r.
loop_iteration(w, r) ==
    IF r[2][1] \in {"Some", "None"}
    THEN returned(w, r[1], ok_boundary(w, r[2]))
    ELSE retry_arm(w, r[1], r[2])

Iterates(w, r, returns) ==
    /\ (r[2][1] \in {"Some", "None"}) = returns
    /\ walk' = Some(loop_iteration(w, r))
    /\ UNCHANGED <<text, caret_abs, cursor_row, cursor_gcol, desired_gcol,
                   last_newline_bol, status, last, retained, keys,
                   located>>

\* An iteration of the loop that ends in Ok(Some(bi)) or Ok(None): the
\* boundary is returned.
StepReturns ==
    /\ walk # None
    /\ walk[1].outcome = "running"
    /\ Iterates(walk[1], step_result(walk[1]), TRUE)

\* An iteration of the loop that ends in an Err arm.
StepRetries ==
    /\ walk # None
    /\ walk[1].outcome = "running"
    /\ Iterates(walk[1], step_result(walk[1]), FALSE)

NextStepper == StepReturns \/ StepRetries

SpecStepper == InitStepper /\ [][NextStepper]_vars

(***************************************************************************)
(* The input layer (input.rs): map_key turns a key event, the mode and the *)
(* pending multi-key state into a KeyMappingResult.  A key event is        *)
(* [code, c] (c the char of KeyCode::Char, "" otherwise); pending is       *)
(* [count, register, prefix]; a result is [kind, cmd, c, count].           *)
(***************************************************************************)

\* The key codes fed to map_key: the named keys of its arms, one key it has
\* no arm for, and Char(c) for a plain letter, two digits and the letters
\* of its normal-mode mappings.
KeyCodes ==
    {"Esc", "Delete", "Up", "Down", "Enter", "Left", "Right", "Backspace",
     "Tab"}

KeyChars == {"a", "0", "1", "d", "g", "i", "w"}

KeyEvents ==
    {[code |-> k, c |-> ""] : k \in KeyCodes}
        \cup {[code |-> "Char", c |-> c] : c \in KeyChars}

Modes == {"Normal", "Insert"}

\* KeyMappingResult
Command(cmd) == [kind |-> "Command", cmd |-> cmd, c |-> "", count |-> 0]
CommandChar(cmd, c) == [kind |-> "Command", cmd |-> cmd, c |-> c, count |-> 0]
CommandCount(cmd, n) == [kind |-> "Command", cmd |-> cmd, c |-> "", count |-> n]
UpdatePending == [kind |-> "UpdatePending", cmd |-> "", c |-> "", count |-> 0]
Noop == [kind |-> "Noop", cmd |-> "", c |-> "", count |-> 0]

\* Pending::clear
clear(pending) == [count |-> None, register |-> None, prefix |-> <<>>]

\* pending.take_count(): the count typed, 1 if none, and the count is taken.
take_count(pending) ==
    <<IF pending.count = None THEN 1 ELSE pending.count[1],
      [pending EXCEPT !.count = None]>>

\* pending.push(key)
push(pending, key) == [pending EXCEPT !.prefix = Append(@, key)]

is_ascii_digit(c) == c \in {"0", "1"}
to_digit(c) == IF c = "0" THEN 0 ELSE 1

\* A map_key that leaves pending as it is on Esc.
map_key_esc_KeepsPending(pending) == <<Command("Quit"), pending>>

\* The Esc test at the top of map_key.
map_key_esc(pending) == <<Command("Quit"), clear(pending)>>

\* The match on event.code in Insert mode.
map_key_insert(event, pending) ==
    CASE event.code = "Char" -> <<CommandChar("InsertChar", event.c), pending>>
      [] event.code = "Delete" -> <<Command("Delete"), pending>>
      [] event.code = "Up" -> <<Command("MoveUp"), pending>>
      [] event.code = "Down" -> <<Command("MoveDown"), pending>>
      [] event.code = "Enter" -> <<Command("InsertNewline"), pending>>
      [] event.code = "Left" -> <<Command("MoveLeft"), pending>>
      [] event.code = "Right" -> <<Command("MoveRight"), pending>>
      [] event.code = "Backspace" -> <<Command("Backspace"), pending>>
      [] event.code = "Esc" -> <<Command("EnterNormalMode"), pending>>
      [] OTHER -> <<Noop, pending>>

\* The plain normal-mode mappings.
map_key_plain(event, pending) ==
    CASE event.code = "Char" /\ event.c = "i" ->
           <<Command("EnterInsertMode"), pending>>
      [] event.code = "Char" /\ event.c = "w" ->
           <<CommandCount("WordForward", take_count(pending)[1]),
             take_count(pending)[2]>>
      [] event.code = "Left" -> <<Command("MoveLeft"), pending>>
      [] event.code = "Right" -> <<Command("MoveRight"), pending>>
      [] event.code = "Up" -> <<Command("MoveUp"), pending>>
      [] event.code = "Down" -> <<Command("MoveDown"), pending>>
      [] event.code = "Backspace" -> <<Command("Backspace"), pending>>
      [] event.code = "Delete" -> <<Command("Delete"), pending>>
      [] event.code = "Enter" -> <<Noop, pending>>
      [] OTHER -> <<Noop, pending>>

\* Start a new prefix, else the plain mappings.
map_key_fresh(event, pending) ==
    IF event.code = "Char" /\ event.c \in {"d", "g"}
    THEN <<UpdatePending, push(pending, event.c)>>
    ELSE map_key_plain(event, pending)

\* The two-key prefixes already started.
map_key_prefix(event, pending) ==
    CASE pending.prefix = <<"d">> /\ event.code = "Char" /\ event.c = "d" ->
           <<CommandCount("DeleteLine", take_count(pending)[1]),
             clear(pending)>>
      [] pending.prefix = <<"g">> /\ event.code = "Char" /\ event.c = "g" ->
           <<Command("MoveToStartOfFile"), clear(pending)>>
      [] pending.prefix \in {<<"d">>, <<"g">>} ->
           map_key_fresh(event, clear(pending))
      [] OTHER -> map_key_fresh(event, pending)

\* Normal mode: count accumulation, then prefixes and mappings.
map_key_normal(event, pending) ==
    IF event.code = "Char" /\ is_ascii_digit(event.c)
    THEN <<UpdatePending,
           [pending EXCEPT !.count =
               Some((IF pending.count = None THEN 0 ELSE pending.count[1])
                       * 10 + to_digit(event.c))]>>
    ELSE map_key_prefix(event, pending)

\* map_key: <<result, pending afterwards>>.
map_key(event, mode, pending) ==
    IF event.code = "Esc" THEN map_key_esc(pending)
    ELSE IF mode = "Insert" THEN map_key_insert(event, pending)
    ELSE map_key_normal(event, pending)

\* The largest count map_key is fed digits for.
MaxCount == 11

Counts == {None} \cup {Some(n) : n \in 0..MaxCount}

Pendings ==
    [count : Counts, register : {None, Some("r")},
     prefix : {<<>>, <<"d">>, <<"g">>}]

\* The count after one more digit d stays within MaxCount.
CountFits(pending, event) ==
    \/ event.code # "Char"
    \/ ~is_ascii_digit(event.c)
    \/ (IF pending.count = None THEN 0 ELSE pending.count[1]) * 10
          + to_digit(event.c) <= MaxCount

\* map_key is called in any mode, with any pending state.
InitKeys ==
    /\ text = <<>>
    /\ caret_abs = 0
    /\ cursor_row = 0
    /\ cursor_gcol = 0
    /\ desired_gcol = None
    /\ last_newline_bol = None
    /\ status = "ok"
    /\ last = [cmd |-> "new", c |-> "", text |-> <<>>, caret |-> 0, row |-> 0,
               gcol |-> 0, desired |-> None, cookie |-> None]
    /\ retained = None
    /\ walk = None
    /\ located = None
    /\ \E mode \in Modes : \E pending \in Pendings :
          keys = Some([mode |-> mode, pending |-> pending, before |-> pending,
                       event |-> [code |-> "", c |-> ""], out |-> Noop])

\* let kmr = input::map_key(key_event, editor.mode(), editor.pending_mut())
MapKey(event) ==
    /\ keys # None
    /\ CountFits(keys[1].pending, event)
    /\ keys' = Some([mode |-> keys[1].mode,
                     pending |-> map_key(event, keys[1].mode,
                                         keys[1].pending)[2],
                     before |-> keys[1].pending,
                     event |-> event,
                     out |-> map_key(event, keys[1].mode, keys[1].pending)[1]])
    /\ UNCHANGED <<text, caret_abs, cursor_row, cursor_gcol, desired_gcol,
                   last_newline_bol, status, last, retained, walk, located>>

NextKeys == \E event \in KeyEvents : MapKey(event)

SpecKeys == InitKeys /\ [][NextKeys]_vars

(***************************************************************************)
(* abs_char_to_line_gcol applied to any offset of any buffer.              *)
(***************************************************************************)

\* The longest buffer abs_char_to_line_gcol is applied to.
MaxLocated == 3

\* The buffer is any rope of up to MaxLocated scalars.
InitLocate ==
    /\ text \in UNION {[1..n -> Scalars] : n \in 0..MaxLocated}
    /\ caret_abs = 0
    /\ cursor_row = 0
    /\ cursor_gcol = 0
    /\ desired_gcol = None
    /\ last_newline_bol = None
    /\ status = "ok"
    /\ last = [cmd |-> "new", c |-> "", text |-> <<>>, caret |-> 0, row |-> 0,
               gcol |-> 0, desired |-> None, cookie |-> None]
    /\ retained = None
    /\ walk = None
    /\ keys = None
    /\ located = None

\* let (row, gcol) = abs_char_to_line_gcol(&text, abs_ci)
Locate(abs_ci) ==
    /\ abs_ci <= len_chars(text)
    /\ located' = Some([abs_ci |-> abs_ci,
                        row |-> abs_char_to_line_gcol(text, abs_ci)[1],
                        gcol |-> abs_char_to_line_gcol(text, abs_ci)[2]])
    /\ UNCHANGED <<text, caret_abs, cursor_row, cursor_gcol, desired_gcol,
                   last_newline_bol, status, last, retained, walk, keys>>

NextLocate == \E abs_ci \in 0..MaxLocated : Locate(abs_ci)

SpecLocate == InitLocate /\ [][NextLocate]_vars

(***************************************************************************)
(* Claims.  last holds the command handled last and the state it was       *)
(* called on, so a claim about one command is a predicate of the state     *)
(* the command returned.                                                   *)
(***************************************************************************)

\* The command cmd was handled last and returned a state.
Processed(cmd) == last.cmd = cmd /\ status = "ok"

\* C1: after every processed command, converting the visual position back to
\* an offset gives the caret: line_gcol_to_abs_char(text, cursor_row,
\* cursor_gcol) = caret_abs.
C1_VisualToAbsIsCaret ==
    line_gcol_to_abs_char(text, cursor_row, cursor_gcol) = caret_abs

\* C2: after every processed command, deriving the visual position from the
\* caret gives the stored cursor: abs_char_to_line_gcol(text, caret_abs) =
\* (cursor_row, cursor_gcol).
C2_AbsToVisualIsCursor ==
    abs_char_to_line_gcol(text, caret_abs) = <<cursor_row, cursor_gcol>>

Vertical == {"MoveUp", "MoveDown"}

\* A vertical move is processed in this step; it changes the row.
VerticalStep == last'.cmd \in Vertical /\ status' = "ok"
RowChanges == cursor_row' # cursor_row

\* C3: sticky column: a run of vertical moves that starts at column g with
\* desired unset captures g on its first move, every further move of the
\* unbroken run keeps the captured column (it is not captured again), and the
\* column after each move is the smaller of the captured column and the
\* grapheme count of the row moved to.
C3_StickyColumn ==
    [][/\ (VerticalStep /\ RowChanges /\ desired_gcol = None)
            => /\ desired_gcol' = Some(cursor_gcol)
               /\ cursor_gcol' =
                     Min(cursor_gcol, Editor_line_gcount(text', cursor_row'))
       /\ (VerticalStep /\ last.cmd \in Vertical /\ desired_gcol # None)
            => /\ desired_gcol' = desired_gcol
               /\ cursor_gcol' =
                     Min(desired_gcol[1],
                         Editor_line_gcount(text', cursor_row'))]_vars

\* C4: every command is total: no command sequence makes handle_command panic
\* (drift assertion, newline guard, or an out-of-range index).
C4_NoPanic ==
    status = "ok"

\* C5: round trip: for the caret c of every reachable state,
\* line_gcol_to_abs_char applied to abs_char_to_line_gcol(c) returns c.
C5_RoundTrip ==
    LET vis == abs_char_to_line_gcol(text, caret_abs)
    IN  line_gcol_to_abs_char(text, vis[1], vis[2]) = caret_abs

\* The move handled last was at its extreme in the state it was called on.
WasAtExtreme ==
    \/ last.cmd = "MoveLeft" /\ last.caret = 0
    \/ last.cmd = "MoveRight" /\ last.caret = len_chars(last.text)
    \/ last.cmd = "MoveUp" /\ last.row = 0
    \/ last.cmd = "MoveDown" /\ last.row + 1 = len_lines(last.text)

SameBufferAndCursor ==
    /\ text = last.text
    /\ caret_abs = last.caret
    /\ cursor_row = last.row
    /\ cursor_gcol = last.gcol

\* C6: a move at its extreme (MoveLeft at caret 0, MoveRight at the end of
\* the buffer, MoveUp on row 0, MoveDown on the last row) returns a state with
\* the same buffer, caret, row and gcol.
C6_MovesAtExtremesAreNoOps ==
    (status = "ok" /\ WasAtExtreme) => SameBufferAndCursor

\* C7: Backspace with caret 0 and Delete with the caret at the end of the
\* buffer do not fail and leave the buffer, caret, row and gcol unchanged.
C7_EditsAtExtremesAreNoOps ==
    (\/ last.cmd = "Backspace" /\ last.caret = 0
     \/ last.cmd = "Delete" /\ last.caret = len_chars(last.text))
    => (status = "ok" /\ SameBufferAndCursor)

\* C7 witness: a Delete was processed with the caret at the end of a
\* non-empty buffer.
C7_Witness ==
    /\ Processed("Delete")
    /\ last.caret = len_chars(last.text)
    /\ last.text # <<>>

\* q is the first grapheme boundary of t after p; q is the last one before p.
FirstBoundaryAfter(t, p, q) ==
    /\ p < q /\ q <= Len(t)
    /\ is_boundary(t, q)
    /\ \A k \in (p + 1)..(q - 1) : ~is_boundary(t, k)

LastBoundaryBefore(t, p, q) ==
    /\ 0 <= q /\ q < p
    /\ is_boundary(t, q)
    /\ \A k \in (q + 1)..(p - 1) : ~is_boundary(t, k)

\* C8: from a caret on a grapheme boundary, MoveLeft (caret > 0) puts the
\* caret on the start of the whole cluster before it and MoveRight (caret <
\* len) on the end of the whole cluster after it; if the row stays the same,
\* cursor_gcol changes by exactly 1.
C8_HorizontalMovesAreGraphemeAtomic ==
    (status = "ok" /\ is_boundary(last.text, last.caret))
    => /\ (last.cmd = "MoveLeft" /\ last.caret > 0)
             => /\ LastBoundaryBefore(last.text, last.caret, caret_abs)
                /\ cursor_row = last.row => cursor_gcol = last.gcol - 1
       /\ (last.cmd = "MoveRight" /\ last.caret < len_chars(last.text))
             => /\ FirstBoundaryAfter(last.text, last.caret, caret_abs)
                /\ cursor_row = last.row => cursor_gcol = last.gcol + 1

\* C8 witness: a MoveLeft stepped over a cluster of more than one scalar and
\* stayed on its row.
C8_Witness ==
    /\ Processed("MoveLeft")
    /\ last.caret - caret_abs >= 2
    /\ last.row = cursor_row
    /\ last.gcol = cursor_gcol + 1

\* t is old without the scalars at char indices start..end-1.
IsRemoval(old, t, start, end) ==
    /\ Len(t) = Len(old) - (end - start)
    /\ \A i \in 1..start : t[i] = old[i]
    /\ \A i \in (end + 1)..Len(old) : t[i - (end - start)] = old[i]

\* C9: Backspace with caret > 0 whose preceding scalar is neither LF nor CR
\* removes exactly the scalars of the grapheme cluster that ends at the caret
\* (all of them at once), leaves every other scalar in place, and puts the
\* caret where the removed range started.
C9_BackspaceRemovesWholeCluster ==
    (/\ Processed("Backspace")
     /\ last.caret > 0
     /\ char(last.text, last.caret - 1) \notin {"LF", "CR"})
    => /\ LastBoundaryBefore(last.text, last.caret, caret_abs)
       /\ IsRemoval(last.text, text, caret_abs, last.caret)

\* C9 witness: one Backspace removed a cluster of more than one scalar and
\* left a scalar in the buffer.
C9_Witness ==
    /\ Processed("Backspace")
    /\ last.caret - caret_abs >= 2
    /\ Len(text) = Len(last.text) - (last.caret - caret_abs)
    /\ text # <<>>

\* C10: InsertChar(c) for a scalar c other than LF inserts c at the old caret
\* index and puts the caret on the first grapheme boundary after the old
\* caret index in the buffer after the insertion.  Typing a combining mark
\* right after a base letter leaves the cursor where it was (the two are one
\* cluster: gcol 1 on row 0 after a lone base letter), and typing a plain
\* letter into an empty buffer gives row 0, gcol 1.
C10_InsertCharAdvancesToNextBoundary ==
    (Processed("InsertChar") /\ last.c # "LF")
    => /\ Len(text) = Len(last.text) + 1
       /\ text[last.caret + 1] = last.c
       /\ IsRemoval(text, last.text, last.caret, last.caret + 1)
       /\ FirstBoundaryAfter(text, last.caret, caret_abs)
       /\ (last.caret > 0 /\ last.text[last.caret] = "a" /\ last.c = "M")
             => (cursor_row = last.row /\ cursor_gcol = last.gcol)
       /\ (last.text = <<"a">> /\ last.caret = 1 /\ last.c = "M")
             => (cursor_row = 0 /\ cursor_gcol = 1)
       /\ (last.text = <<>> /\ last.c = "a")
             => (cursor_row = 0 /\ cursor_gcol = 1)

\* C10 witness: a combining mark was typed right after a lone base letter.
C10_Witness ==
    /\ Processed("InsertChar")
    /\ last.c = "M"
    /\ last.text = <<"a">>
    /\ last.caret = 1
    /\ text = <<"a", "M">>
    /\ caret_abs = 2
    /\ cursor_gcol = 1

\* C11: after InsertChar(LF), cursor_gcol = 0 and the caret is the first
\* offset of cursor_row, the row that starts right after the inserted line
\* feed; a plain letter inserted next (with the caret right after a line feed,
\* at column 0 of its row) is the first scalar of that row, and cursor_gcol
\* becomes 1.
C11_NewlinePlacement ==
    /\ (Processed("InsertChar") /\ last.c = "LF")
          => /\ text[last.caret + 1] = "LF"
             /\ caret_abs = last.caret + 1
             /\ cursor_gcol = 0
             /\ cursor_row < len_lines(text)
             /\ caret_abs = line_to_char(text, cursor_row)
    /\ (/\ Processed("InsertChar") /\ last.c = "a"
        /\ last.caret > 0
        /\ last.text[last.caret] = "LF"
        /\ last.gcol = 0
        /\ last.caret = line_to_char(last.text, last.row))
          => /\ cursor_row = last.row
             /\ text[line_to_char(text, cursor_row) + 1] = "a"
             /\ line_to_char(text, cursor_row) = last.caret
             /\ cursor_gcol = 1

\* C11 witness: a plain letter was typed right after a line feed typed into
\* a buffer that held a letter.
C11_Witness ==
    /\ Processed("InsertChar")
    /\ last.c = "a"
    /\ last.text = <<"a", "LF">>
    /\ last.caret = 2
    /\ last.gcol = 0
    /\ text = <<"a", "LF", "a">>
    /\ cursor_row = 1
    /\ cursor_gcol = 1

\* The number of scalars the last command removed from the buffer.
Removed == Len(last.text) - Len(text)

\* C12: Delete with the caret on a line break removes it as one unit (an LF
\* alone, a CR followed by LF as a pair, a lone CR alone), joins two lines
\* and removes no other scalar; with the caret on any other scalar it
\* removes exactly the whole grapheme cluster that starts at the caret.
C12_DeleteRemovesBreakAsUnit ==
    (Processed("Delete") /\ last.caret < len_chars(last.text))
    => LET t == last.text
           here == last.caret
           len == len_chars(t)
       IN  /\ IsRemoval(t, text, here, here + Removed)
           /\ char(t, here) = "LF" => Removed = 1
           /\ (char(t, here) = "CR" /\ here + 1 < len
                                    /\ char(t, here + 1) = "LF")
                 => Removed = 2
           /\ (char(t, here) = "CR"
                 /\ (here + 1 < len => char(t, here + 1) # "LF"))
                 => Removed = 1
           /\ char(t, here) \in {"LF", "CR"}
                 => len_lines(text) = len_lines(t) - 1
           /\ char(t, here) \notin {"LF", "CR"}
                 => FirstBoundaryAfter(t, here, here + Removed)

\* The scalar at the caret the last command started from is a line break.
WasOnLineBreak ==
    /\ last.caret < len_chars(last.text)
    /\ char(last.text, last.caret) \in {"LF", "CR"}

\* C13: Delete never changes the caret's absolute offset, and when it
\* removes a line break that starts at the caret the cursor keeps its row
\* and its grapheme column.
C13_DeleteKeepsCaretAndCursor ==
    Processed("Delete")
    => /\ caret_abs = last.caret
       /\ WasOnLineBreak
             => (cursor_row = last.row /\ cursor_gcol = last.gcol)

\* The number of grapheme clusters of the scalar sequence s.
ClusterCount(s) == Cardinality({k \in 1..Len(s) : is_boundary(s, k)})

\* The length of the line break that ends at offset p > 0 of t.
BreakLenBefore(t, p) ==
    IF p >= 2 /\ t[p] = "LF" /\ t[p - 1] = "CR" THEN 2 ELSE 1

\* C14: Backspace with the caret at the start of a row r > 0 removes exactly
\* the line break before the caret (CR LF as one unit of two scalars, a lone
\* LF or CR as one scalar) and nothing else; afterwards cursor_row = r - 1,
\* cursor_gcol is the number of grapheme clusters of the former content of
\* row r - 1, and the caret is the offset where the removed break started.
C14_BackspaceJoinsRows ==
    (/\ Processed("Backspace")
     /\ last.row > 0
     /\ last.row < len_lines(last.text)
     /\ last.caret = line_to_char(last.text, last.row))
    => LET t == last.text
           here == last.caret
           n == BreakLenBefore(t, here)
           above == line_to_char(t, last.row - 1)
           content == SubSeq(t, above + 1, here - n)
       IN  /\ IsRemoval(t, text, here - n, here)
           /\ caret_abs = here - n
           /\ cursor_row = last.row - 1
           /\ cursor_gcol = ClusterCount(content)

\* C15: handle_command never changes the state it is called on.  A value
\* the caller retained (buffer, caret, row, gcol and desired column) changes
\* in no step in which a command is handled, whatever the command and
\* however many commands have been applied since it was retained.
C15_CalledOnStateIsUnchanged ==
    [][(last' # last \/ EditorValue' # EditorValue \/ status' # status)
          => retained' = retained]_vars

\* C15 witness: a value retained before a run of commands differs in its
\* buffer, caret and cursor from the state the commands led to.
C15_Witness ==
    /\ retained # None
    /\ retained[1].text = <<"a">>
    /\ retained[1].caret = 1
    /\ retained[1].desired = None
    /\ Processed("MoveUp")
    /\ last.text = <<"a", "LF">>
    /\ text = <<"a", "LF">>
    /\ caret_abs = 0
    /\ desired_gcol = Some(0)

\* C16: the state Quit or Unknown returns has the same buffer, caret, row,
\* gcol and desired column as the state the command was called on.
C16_QuitAndUnknownAreNoOps ==
    (status = "ok" /\ last.cmd \in {"Quit", "Unknown"})
    => (SameBufferAndCursor /\ desired_gcol = last.desired)

\* C16 witness: Quit was handled in the middle of a run of vertical moves,
\* with a desired column set, in a buffer of two rows.
C16_Witness ==
    /\ Processed("Quit")
    /\ last.desired # None
    /\ desired_gcol # None
    /\ len_lines(text) >= 2
    /\ cursor_row = 1

Horizontal == {"MoveLeft", "MoveRight", "InsertChar", "Backspace", "Delete"}

\* C17: desired_gcol is Some only during an unbroken run of vertical moves:
\* in a returned state with desired_gcol set, the last command was a vertical
\* move that changed the row, or a command that changed nothing (a vertical
\* move at its extreme, Quit, Unknown) called on a state that had the same
\* desired column already; and every MoveLeft, MoveRight, InsertChar,
\* Backspace and Delete, a no-op at an extreme included, returns
\* desired_gcol = None.
C17_DesiredOnlyDuringVerticalRun ==
    status = "ok"
    => /\ last.cmd \in Horizontal => desired_gcol = None
       /\ desired_gcol # None
             => \/ last.cmd \in Vertical /\ cursor_row # last.row
                \/ /\ last.cmd \in Vertical \cup {"Quit", "Unknown"}
                   /\ SameBufferAndCursor
                   /\ last.desired = desired_gcol

\* C17 witness: a Backspace at caret 0, which removes nothing, was called
\* with a desired column set and returned none.
C17_Witness ==
    /\ Processed("Backspace")
    /\ last.caret = 0
    /\ last.desired # None
    /\ text = last.text
    /\ desired_gcol = None

\* C18: a MoveUp with a row above, or a MoveDown with a row below, changes
\* cursor_row by exactly one, sets cursor_gcol to the smaller of the desired
\* column and the grapheme count of the new row, and puts the caret on the
\* new row: the buffer's line index of the caret is cursor_row.  A plain
\* letter inserted next (the desired column still set) lands in the row the
\* cursor showed.
C18_VerticalMovePostcondition ==
    /\ (status = "ok" /\ last.cmd \in Vertical /\ ~WasAtExtreme)
          => /\ cursor_row = IF last.cmd = "MoveUp" THEN last.row - 1
                             ELSE last.row + 1
             /\ desired_gcol # None
             /\ cursor_gcol = Min(desired_gcol[1],
                                  Editor_line_gcount(text, cursor_row))
             /\ char_to_line(text, caret_abs) = cursor_row
    /\ (Processed("InsertChar") /\ last.c = "a" /\ last.desired # None)
          => char_to_line(text, last.caret) = last.row

\* A call of the boundary stepper has ended: it returned, panicked, or
\* entered an iteration that repeats for ever.
StepperEnded == walk # None /\ walk[1].outcome # "running"

\* C19: for every buffer, every chunk layout and every offset p in
\* [0, len], the forward step returns a grapheme boundary q >= p (q > p when
\* p < len, q = len when p = len) and the backward step a grapheme boundary
\* q <= p (q < p when p > 0, q = 0 when p = 0).
C19_StepperContract ==
    StepperEnded
    => LET w == walk[1]
           p == w.from
           len == len_chars(w.t)
           q == abs_byte_to_abs_char(w.t, w.result)
       IN  /\ w.outcome = "returned"
           /\ is_boundary(w.t, q)
           /\ w.forward => /\ q >= p
                           /\ p < len => q > p
                           /\ p = len => q = len
           /\ ~w.forward => /\ q <= p
                            /\ p > 0 => q < p
                            /\ p = 0 => q = 0

\* C20: the retry loop of the stepper terminates for every buffer, start
\* offset and chunk layout: every retry after NextChunk, PrevChunk,
\* PreContext or InvalidOffset makes progress, so no call reaches an
\* iteration that leaves the cursor and the chunk as they were.
C20_RetryLoopTerminates ==
    walk # None => walk[1].outcome # "diverged"

\* The commands handle_command has an arm for.
CoreCommands ==
    {"MoveUp", "MoveDown", "MoveLeft", "MoveRight", "InsertChar",
     "Backspace", "Delete", "Quit", "Unknown"}

\* C21: every command map_key hands out, for any key event, mode and
\* pending state, is one of MoveUp, MoveDown, MoveLeft, MoveRight,
\* InsertChar(scalar), Backspace, Delete, Quit, Unknown: the commands
\* handle_command has a transition for.
C21_MapKeyHandsCoreCommands ==
    (keys # None /\ keys[1].out.kind = "Command")
    => keys[1].out.cmd \in CoreCommands

\* C22: map_key on Esc returns Command(Quit) and clears pending (count,
\* register, prefix) in every mode and for every pending state; map_key on
\* Char(c) in Insert mode returns Command(InsertChar(c)) and leaves pending
\* as it was.
C22_EscQuitsAndCharInserts ==
    keys # None
    => /\ keys[1].event.code = "Esc"
             => /\ keys[1].out = Command("Quit")
                /\ keys[1].pending.count = None
                /\ keys[1].pending.register = None
                /\ keys[1].pending.prefix = <<>>
       /\ (keys[1].event.code = "Char" /\ keys[1].mode = "Insert")
             => /\ keys[1].out.kind = "Command"
                /\ keys[1].out.cmd = "InsertChar"
                /\ keys[1].out.c = keys[1].event.c
                /\ keys[1].pending = keys[1].before

\* C22 witness: Esc was pressed in Normal mode with a count, a register and
\* a prefix pending.
C22_Witness ==
    /\ keys # None
    /\ keys[1].event.code = "Esc"
    /\ keys[1].mode = "Normal"
    /\ keys[1].before.count # None
    /\ keys[1].before.register # None
    /\ keys[1].before.prefix = <<"d">>
    /\ keys[1].out.cmd = "Quit"
    /\ keys[1].pending.prefix = <<>>


\* The start of the cluster of t that offset p lies in: p itself on a
\* boundary, else the last boundary before p.
ClusterStart(t, p) ==
    CHOOSE q \in 0..p : is_boundary(t, q)
                           /\ \A k \in (q + 1)..p : ~is_boundary(t, k)

\* The clusters of t between offsets p and q, both on boundaries.
ClustersBetween(t, p, q) ==
    Cardinality({k \in (p + 1)..q : is_boundary(t, k)})

\* The row of t that offset p lies on, and its first offset.
RowOf(t, p) == char_to_line(t, p)
RowStart(t, p) == line_to_char(t, RowOf(t, p))

\* C23: abs_char_to_line_gcol never splits a cluster: for an offset
\* strictly inside a cluster it answers the gcol of the start of the
\* enclosing cluster, for an offset on a boundary the number of clusters
\* between the start of the line and the offset, and for any offset on an
\* empty line gcol 0.
C23_LocateSnapsDown ==
    located # None
    => /\ located[1].row = RowOf(text, located[1].abs_ci)
       /\ located[1].gcol =
             ClustersBetween(text, RowStart(text, located[1].abs_ci),
                             ClusterStart(text, located[1].abs_ci))
       /\ line(text, located[1].row) = <<>> => located[1].gcol = 0

\* C23 witness: an offset strictly inside the second cluster of its line
\* is answered with gcol 1.
C23_Witness ==
    /\ located # None
    /\ ~is_boundary(text, located[1].abs_ci)
    /\ ClusterStart(text, located[1].abs_ci)
          > RowStart(text, located[1].abs_ci)
    /\ located[1].gcol = 1


\* C24: the newline guard never fires: at the entry of the command that
\* directly follows an InsertChar(LF), if the cursor is still on the
\* recorded row, the caret's byte offset is not greater than the recorded
\* start of the row, so the "Auto-insert before caret after newline" panic
\* is unreachable; and the guard changes no field, it only takes its cookie.
C24_NewlineGuardNeverFires ==
    /\ status # "newline_guard"
    /\ (last.cmd # "new" /\ last.cookie # None
           /\ last.row = last.cookie[1])
          => char_to_byte_idx(last.text, last.caret) <= last.cookie[2]
    /\ (status = "ok" /\ last.cmd # "new"
           /\ ~(last.cmd = "InsertChar" /\ last.c = "LF"))
          => last_newline_bol = None
    /\ (status = "ok" /\ last.cmd \in {"Quit", "Unknown"}
           /\ last.cookie # None)
          => /\ text = last.text
             /\ caret_abs = last.caret
             /\ cursor_row = last.row
             /\ cursor_gcol = last.gcol
             /\ desired_gcol = last.desired

\* C24 witness: Quit directly follows an InsertChar(LF) that recorded a row
\* not at the start of the buffer; the cursor was still on that row, the
\* guard passed and took the cookie.
C24_Witness ==
    /\ Processed("Quit")
    /\ last.cookie # None
    /\ last.row = last.cookie[1]
    /\ last.cookie[2] > 0
    /\ char_to_byte_idx(last.text, last.caret) = last.cookie[2]
    /\ last_newline_bol = None
    /\ text = last.text


\* C25: a line feed always starts a fresh row: after InsertChar(LF), from
\* any reachable state (also when the scalar just before the caret is CR),
\* cursor_row is exactly one greater than before and the buffer has exactly
\* one more line.
C25_LineFeedStartsFreshRow ==
    (Processed("InsertChar") /\ last.c = "LF")
    => /\ cursor_row = last.row + 1
       /\ len_lines(text) = len_lines(last.text) + 1


C27_CaretOnClusterBoundary == is_boundary(text, caret_abs)


\* C28: frame of the commands on the buffer: MoveLeft, MoveRight, MoveUp,
\* MoveDown, Quit and Unknown never change the buffer content;
\* InsertChar(c) makes the buffer exactly one scalar longer, with c at the
\* old caret index and every other scalar in its previous relative order;
\* Backspace and Delete only remove one contiguous range next to the caret.
C28_BufferFrame ==
    /\ last.cmd \in {"MoveLeft", "MoveRight", "MoveUp", "MoveDown", "Quit",
                     "Unknown"}
          => text = last.text
    /\ Processed("InsertChar")
          => /\ Len(text) = Len(last.text) + 1
             /\ char(text, last.caret) = last.c
             /\ IsRemoval(text, last.text, last.caret, last.caret + 1)
    /\ Processed("Backspace")
          => \E start \in 0..last.caret :
                IsRemoval(last.text, text, start, last.caret)
    /\ Processed("Delete")
          => \E end \in last.caret..Len(last.text) :
                IsRemoval(last.text, text, last.caret, end)
    /\ status # "ok" => text = last.text

\* C28 witness: a scalar was inserted between two scalars of the buffer.
C28_Witness ==
    /\ Processed("InsertChar")
    /\ 0 < last.caret
    /\ last.caret < Len(last.text)
    /\ char(text, last.caret) = last.c
    /\ char(text, last.caret - 1) # last.c
    /\ char(text, last.caret + 1) # last.c

====
